---- MODULE Spec2Model ----
(***************************************************************************)
(* A model of the user-account service: the AuthManager helpers of         *)
(* auth.py, the UserService data-access class of user_service.py, the      *)
(* request models of models.py and the route handlers of main.py.          *)
(*                                                                         *)
(* The specifications share the operators below:                           *)
(*   SpecStore  concurrent callers of UserService.create_user /            *)
(*              update_user / delete_user, one store round trip per step;  *)
(*   SpecTxn    the same calls when the store can fail;                    *)
(*   Spec       the HTTP routes of main.py, one request per step;          *)
(*   SpecRace   two registrations with one username, sent together;        *)
(*   SpecStale  the routes, with a token kept across renames;              *)
(*   SpecConn   the module-level db handle of database.py under            *)
(*              concurrent requests;                                       *)
(*   SpecToken  AuthManager.create_access_token / verify_token over time.  *)
(***************************************************************************)
EXTENDS Integers, Sequences, FiniteSets, TLC

VARIABLES
    users,      \* the committed rows of table users
    nextId,     \* the next value of the id sequence of table users
    now,        \* the wall clock (datetime.utcnow / CURRENT_TIMESTAMP), minutes
    pc,         \* SpecStore: each caller's position in its UserService call
    call,       \* SpecStore: the arguments of the call a caller is inside
    pend,       \* SpecStore: each caller's uncommitted write
    result,     \* SpecStore: what each caller's last finished call produced
    plan,       \* SpecRace: the registration each caller sends
    held,       \* Spec: the token each client received at its last login
    resp,       \* Spec: the response of the last request
    token,      \* SpecToken: the token under observation
    verdict,    \* SpecToken: what the last verify_token call produced
    issuedTo,   \* Spec: the id of the record whose login issued the held token
    db_connection,  \* SpecConn: database.db.connection, the module-level handle
    conns,      \* SpecConn: the state of every connection psycopg2.connect made
    req         \* SpecConn: each request's position and the connections it met

vars == <<users, nextId, now, pc, call, pend, result, plan, held, resp, token, verdict,
          issuedTo, db_connection, conns, req>>

storeVars == <<pc, call, pend, result>>
routeVars == <<plan, held, resp, issuedTo>>
tokenVars == <<token, verdict>>
connVars == <<db_connection, conns, req>>

----------------------------------------------------------------------------
(* Bounds of the model *)

MaxId == 2          \* ids the sequence hands out
MaxTime == 45       \* last minute the clock reaches
MaxConns == 4       \* connections psycopg2.connect makes

(* Python's None, and a present value, for Optional[...] *)
None == <<>>
Some(v) == <<v>>
Val(o) == o[1]

\* a request that has not arrived
NoRequest == [pc |-> "new", own |-> None, cursor |-> None, committed |-> None]

(* Input domains *)
Usernames == {"alice", "bob"}
Emails == {"a@x.com", "b@x.com"}
Phones == {"5551234567", "5557654321"}
Passwords == {"pw123456", "hunter22"}
Salts == {"salt1"}
Procs == {"w1", "w2"}
Requests == {"r1", "r2"}
TickSteps == {15}

----------------------------------------------------------------------------
(* auth.py *)

ACCESS_TOKEN_EXPIRE_MINUTES == 30

\* pwd_context.hash: a salted bcrypt digest; the salt is drawn by the caller
hash_password(password, salt) ==
    [scheme |-> "bcrypt", salt |-> salt, digest |-> password]

\* pwd_context.verify: recompute with the salt embedded in the hash
verify_password(plain_password, hashed_password) ==
    hash_password(plain_password, hashed_password.salt) = hashed_password

\* a timedelta is truthy unless it is timedelta(0)
truthy_delta(expires_delta) ==
    expires_delta # None /\ Val(expires_delta) # 0

\* create_access_token: data.copy(), "exp" added, signed with SECRET_KEY
create_access_token(data, expires_delta) ==
    [claims |-> data,
     exp |-> IF truthy_delta(expires_delta)
             THEN now + Val(expires_delta)
             ELSE now + ACCESS_TOKEN_EXPIRE_MINUTES,
     sig |-> "SECRET_KEY"]

HTTPException(status_code, detail, headers) ==
    [status |-> status_code, detail |-> detail, headers |-> headers]

Bearer == Some("WWW-Authenticate: Bearer")

\* jose.jwt.decode: JWTError on a bad signature, and on exp < now
jwt_decode_fails(tok) ==
    \/ tok.sig # "SECRET_KEY"
    \/ tok.exp < now

\* verify_token: the dict it returns, or the HTTPException it raises
verify_token(tok) ==
    IF jwt_decode_fails(tok)
    THEN [kind |-> "HTTPException",
          exc |-> HTTPException(401, "Invalid authentication credentials", Bearer)]
    ELSE IF tok.claims.sub = None
    THEN [kind |-> "HTTPException",
          exc |-> HTTPException(401, "Invalid authentication credentials", Bearer)]
    ELSE [kind |-> "return", value |-> [username |-> Val(tok.claims.sub)]]

----------------------------------------------------------------------------
(* The table users (section 6 of the specification: id PK, username UNIQUE, *)
(* email UNIQUE, phone_number UNIQUE, password, created_at, updated_at)     *)

SameKey(r, s) ==
    \/ r.username = s.username
    \/ r.email = s.email
    \/ r.phone_number = s.phone_number

\* (mutant) a table created without the UNIQUE constraints
UniqueViolation_none(row, tbl) == FALSE

\* the UNIQUE constraints: row collides with another row of tbl
UniqueViolation(row, tbl) ==
    \E r \in tbl : r.id # row.id /\ SameKey(r, row)

\* the columns the RETURNING / SELECT lists without password name
PublicRow(r) ==
    [id |-> r.id, username |-> r.username, email |-> r.email,
     phone_number |-> r.phone_number,
     created_at |-> r.created_at, updated_at |-> r.updated_at]

\* a row lock or an uncommitted unique key of another caller makes p wait
Blocked(p, row) ==
    \E q \in Procs \ {p} :
        /\ pend[q] # None
        /\ \/ Val(pend[q]).row.id = row.id
           \/ /\ Val(pend[q]).op # "delete"
              /\ SameKey(Val(pend[q]).row, row)
           \/ \E r \in users : r.id = Val(pend[q]).row.id /\ SameKey(r, row)

DatabaseError == "Database error: duplicate key value violates unique constraint"

Return(v) == [kind |-> "return", value |-> v]
Raise(msg) == [kind |-> "ValueError", detail |-> msg]

----------------------------------------------------------------------------
(* user_service.py: UserService.create_user *)

\* the rows the check query selects
check_query(tbl, user_data) ==
    {r \in tbl : \/ r.username = user_data.username
                 \/ r.email = user_data.email
                 \/ r.phone_number = user_data.phone_number}

\* (mutant) the first branch taken for whatever row came back
existing_error_first(existing_user, user_data) ==
    Some("Username already exists")

\* the if / elif chain over the row fetchone returned
existing_error(existing_user, user_data) ==
    IF existing_user.username = user_data.username
        THEN Some("Username already exists")
    ELSE IF existing_user.email = user_data.email
        THEN Some("Email already exists")
    ELSE IF existing_user.phone_number = user_data.phone_number
        THEN Some("Phone number already exists")
    ELSE None

\* the row the INSERT writes
insert_row(user_data, salt) ==
    [id |-> nextId, username |-> user_data.username, email |-> user_data.email,
     phone_number |-> user_data.phone_number,
     password |-> hash_password(user_data.password, salt),
     created_at |-> now, updated_at |-> now]

UserCreateBodies ==
    [username : Usernames, email : Emails, phone_number : Phones,
     password : Passwords]

\* cursor.execute(check_query), fetchone and the if / elif chain: the message
\* of the ValueError raised, or None when the call goes on to the INSERT
create_user_check(tbl, user_data) ==
    IF check_query(tbl, user_data) = {} THEN {None}
    ELSE {existing_error(r, user_data) : r \in check_query(tbl, user_data)}

\* the call up to the check query's result
UserService_create_user_check(p, user_data) ==
    /\ pc[p] = "idle"
    /\ nextId <= MaxId
    /\ \E e \in create_user_check(users, user_data) :
        IF e = None
        THEN /\ pc' = [pc EXCEPT ![p] = "insert"]
             /\ call' = [call EXCEPT ![p] = [op |-> "create", data |-> user_data]]
             /\ result' = [result EXCEPT ![p] = None]
        ELSE \* raise ValueError(...); except Exception: rollback, raise
             /\ result' = [result EXCEPT ![p] =
                    Some([op |-> "create", out |-> Raise(Val(e))])]
             /\ UNCHANGED <<pc, call>>
    /\ UNCHANGED <<users, nextId, now, pend, routeVars, tokenVars, connVars>>

\* hash_password and cursor.execute(insert_query)
UserService_create_user_insert(p) ==
    /\ pc[p] = "insert"
    /\ \E salt \in Salts :
        LET row == insert_row(call[p].data, salt) IN
        /\ ~Blocked(p, row)
        /\ IF UniqueViolation(row, users)
           THEN \* psycopg2.Error: rollback, raise ValueError(f"Database error: {e}")
                /\ result' = [result EXCEPT ![p] = Some(
                        [op |-> "create", out |-> Raise(DatabaseError)])]
                /\ pc' = [pc EXCEPT ![p] = "idle"]
                /\ call' = [call EXCEPT ![p] = None]
                /\ UNCHANGED <<pend, nextId>>
           ELSE /\ pend' = [pend EXCEPT ![p] = Some([op |-> "insert", row |-> row])]
                /\ nextId' = nextId + 1
                /\ pc' = [pc EXCEPT ![p] = "commit"]
                /\ UNCHANGED <<call, result>>
    /\ UNCHANGED <<users, now, routeVars, tokenVars, connVars>>

----------------------------------------------------------------------------
(* user_service.py: UserService.update_user *)

UserUpdateBodies ==
    [username : {None} \cup {Some(u) : u \in Usernames},
     email : {None} \cup {Some(e) : e \in Emails},
     phone_number : {None} \cup {Some(n) : n \in Phones},
     password : {None} \cup {Some(w) : w \in Passwords}]

\* update_fields: the columns the dynamic query sets
update_fields(user_data) ==
    {f \in {"username", "email", "phone_number", "password"} : user_data[f] # None}

\* (mutant) an UPDATE that does not touch updated_at
update_row_stale(r, user_data, salt) ==
    [id |-> r.id,
     username |-> IF user_data.username # None
                  THEN Val(user_data.username) ELSE r.username,
     email |-> IF user_data.email # None THEN Val(user_data.email) ELSE r.email,
     phone_number |-> IF user_data.phone_number # None
                      THEN Val(user_data.phone_number) ELSE r.phone_number,
     password |-> IF user_data.password # None
                  THEN hash_password(Val(user_data.password), salt) ELSE r.password,
     created_at |-> r.created_at,
     updated_at |-> r.updated_at]

\* the row the UPDATE leaves: the SET list, then updated_at = CURRENT_TIMESTAMP
update_row(r, user_data, salt) ==
    [id |-> r.id,
     username |-> IF user_data.username # None
                  THEN Val(user_data.username) ELSE r.username,
     email |-> IF user_data.email # None THEN Val(user_data.email) ELSE r.email,
     phone_number |-> IF user_data.phone_number # None
                      THEN Val(user_data.phone_number) ELSE r.phone_number,
     password |-> IF user_data.password # None
                  THEN hash_password(Val(user_data.password), salt) ELSE r.password,
     created_at |-> r.created_at,
     updated_at |-> now]

\* the call up to cursor.execute(query, values) and fetchone
UserService_update_user_execute(p, user_id, user_data) ==
    /\ pc[p] = "idle"
    /\ IF update_fields(user_data) = {}
       THEN \* raise ValueError("No fields to update"); rollback
            /\ result' = [result EXCEPT ![p] = Some(
                    [op |-> "update",
                     out |-> Raise("No fields to update")])]
            /\ UNCHANGED <<pc, call, pend>>
       ELSE IF \A r \in users : r.id # user_id
       THEN \* no row matched: return None
            /\ result' = [result EXCEPT ![p] = Some(
                    [op |-> "update",
                     out |-> Return(None)])]
            /\ UNCHANGED <<pc, call, pend>>
       ELSE \E r \in users, salt \in Salts :
            LET row == update_row(r, user_data, salt) IN
            /\ r.id = user_id
            /\ ~Blocked(p, row)
            /\ IF UniqueViolation(row, users)
               THEN /\ result' = [result EXCEPT ![p] = Some(
                            [op |-> "update",
                             out |-> Raise(DatabaseError)])]
                    /\ UNCHANGED <<pc, call, pend>>
               ELSE /\ pend' = [pend EXCEPT ![p] = Some([op |-> "update", row |-> row])]
                    /\ pc' = [pc EXCEPT ![p] = "commit"]
                    /\ call' = [call EXCEPT ![p] = [op |-> "update"]]
                    /\ result' = [result EXCEPT ![p] = None]
    /\ UNCHANGED <<users, nextId, now, routeVars, tokenVars, connVars>>

----------------------------------------------------------------------------
(* user_service.py: UserService.delete_user *)

\* cursor.execute("DELETE ... RETURNING id") and fetchone
UserService_delete_user_execute(p, user_id) ==
    /\ pc[p] = "idle"
    /\ IF \A r \in users : r.id # user_id
       THEN /\ result' = [result EXCEPT ![p] = Some(
                    [op |-> "delete", out |-> Return(FALSE)])]
            /\ UNCHANGED <<pc, call, pend>>
       ELSE \E r \in users :
            /\ r.id = user_id
            /\ ~Blocked(p, r)
            /\ pend' = [pend EXCEPT ![p] = Some([op |-> "delete", row |-> r])]
            /\ pc' = [pc EXCEPT ![p] = "commit"]
            /\ call' = [call EXCEPT ![p] = [op |-> "delete"]]
            /\ result' = [result EXCEPT ![p] = None]
    /\ UNCHANGED <<users, nextId, now, routeVars, tokenVars, connVars>>

----------------------------------------------------------------------------
(* database.py: DatabaseConnection.commit, and the return that follows it *)

\* the table after the caller's write is committed
committed(tbl, w) ==
    IF w.op = "insert" THEN tbl \cup {w.row}
    ELSE IF w.op = "update" THEN {r \in tbl : r.id # w.row.id} \cup {w.row}
    ELSE {r \in tbl : r.id # w.row.id}

commit(p) ==
    /\ pc[p] = "commit"
    /\ users' = committed(users, Val(pend[p]))
    /\ pend' = [pend EXCEPT ![p] = None]
    /\ pc' = [pc EXCEPT ![p] = "idle"]
    /\ result' = [result EXCEPT ![p] = Some(
            IF call[p].op = "delete"
            THEN [op |-> "delete", out |-> Return(TRUE)]
            ELSE [op |-> call[p].op,
                  out |-> Return(Some(PublicRow(Val(pend[p]).row)))])]
    /\ call' = [call EXCEPT ![p] = None]
    /\ UNCHANGED <<nextId, now, routeVars, tokenVars, connVars>>

----------------------------------------------------------------------------
(* Time passes *)

Tick ==
    /\ \E d \in TickSteps : now + d <= MaxTime /\ now' = now + d
    /\ UNCHANGED <<users, nextId, storeVars, routeVars, tokenVars, connVars>>

----------------------------------------------------------------------------
(* SpecStore: concurrent callers of the UserService *)

InitStore ==
    /\ users = {}
    /\ nextId = 1
    /\ now = 0
    /\ pc = [p \in Procs |-> "idle"]
    /\ call = [p \in Procs |-> None]
    /\ pend = [p \in Procs |-> None]
    /\ result = [p \in Procs |-> None]
    /\ plan = None
    /\ held = None
    /\ resp = None
    /\ token = None
    /\ verdict = None
    /\ issuedTo = None
    /\ db_connection = None
    /\ conns = <<>>
    /\ req = [r \in Requests |-> NoRequest]

StoreCreateBodies == {b \in UserCreateBodies : b.password = "pw123456"}
StoreUpdateBodies ==
    {b \in UserUpdateBodies :
        \/ b.password = None
        \/ b.password = Some("pw123456") /\ update_fields(b) = {"password"}}

NextStore ==
    \/ \E p \in Procs, user_data \in StoreCreateBodies :
            UserService_create_user_check(p, user_data)
    \/ \E p \in Procs : UserService_create_user_insert(p)
    \/ \E p \in Procs, user_id \in 1..MaxId, user_data \in StoreUpdateBodies :
            UserService_update_user_execute(p, user_id, user_data)
    \/ \E p \in Procs, user_id \in 1..MaxId : UserService_delete_user_execute(p, user_id)
    \/ \E p \in Procs : commit(p)

SpecStore == InitStore /\ [][NextStore]_vars

----------------------------------------------------------------------------
(* main.py: register_user, the response built from create_user's outcome *)

register_user_response(out) ==
    IF out.kind = "return"
    THEN [status |-> 200, success |-> TRUE,
          message |-> "User registered successfully",
          data |-> [user |-> Val(out.value)]]
    ELSE \* except ValueError as e: HTTPException(400, detail=str(e))
         HTTPException(400, out.detail, None)

----------------------------------------------------------------------------
(* models.py: what the request models accept (FastAPI answers 422 otherwise). *)
(* Every e-mail of the input domains is a well-formed EmailStr.               *)

UserCreate_valid(b) ==
    /\ Len(b.username) >= 3 /\ Len(b.username) <= 50
    /\ Len(b.phone_number) >= 10 /\ Len(b.phone_number) <= 20
    /\ Len(b.password) >= 6

\* models.UserUpdate, the class main.py imports: it declares username, email,
\* phone_number and password; any other key of the body is ignored
UserUpdate_parse(body) ==
    [username |-> body.username, email |-> body.email,
     phone_number |-> body.phone_number, password |-> body.password]

UserUpdate_valid(b) ==
    /\ b.username # None => Len(Val(b.username)) >= 3 /\ Len(Val(b.username)) <= 50
    /\ b.phone_number # None =>
            Len(Val(b.phone_number)) >= 10 /\ Len(Val(b.phone_number)) <= 20
    /\ b.password # None => Len(Val(b.password)) >= 6

ValidationError == HTTPException(422, "validation error", None)

----------------------------------------------------------------------------
(* user_service.py: the UserService calls run start to finish, as a route    *)
(* handler runs them (the handlers are coroutines that never await, so one   *)
(* worker runs one handler at a time). Each gives its possible outcomes.     *)

UserService_create_user(user_data) ==
    LET checks == create_user_check(users, user_data) IN
    {[out |-> Raise(Val(e)), users |-> users, nextId |-> nextId] :
        e \in checks \ {None}}
    \cup
    IF None \notin checks THEN {}
    ELSE {IF UniqueViolation(insert_row(user_data, salt), users)
          THEN [out |-> Raise(DatabaseError), users |-> users, nextId |-> nextId]
          ELSE [out |-> Return(Some(PublicRow(insert_row(user_data, salt)))),
                users |-> committed(users,
                    [op |-> "insert", row |-> insert_row(user_data, salt)]),
                nextId |-> nextId + 1]
          : salt \in Salts}

UserService_get_user_by_id(user_id) ==
    IF \E r \in users : r.id = user_id
    THEN Some(PublicRow(CHOOSE r \in users : r.id = user_id))
    ELSE None

\* SELECT id, username, email, phone_number, password, created_at, updated_at
UserService_get_user_by_username(username) ==
    IF \E r \in users : r.username = username
    THEN Some(CHOOSE r \in users : r.username = username)
    ELSE None

\* ORDER BY created_at DESC LIMIT limit OFFSET offset: every order the store
\* may give rows of one created_at
UserService_get_all_users(limit, offset) ==
    LET n == Cardinality(users)
        orders == {f \in [1..n -> users] :
                    /\ \A i, j \in 1..n : i # j => f[i] # f[j]
                    /\ \A i, j \in 1..n : i < j => f[i].created_at >= f[j].created_at}
        last == IF offset + limit < n THEN offset + limit ELSE n
    IN  {[i \in 1..(IF last > offset THEN last - offset ELSE 0) |->
            PublicRow(f[offset + i])] : f \in orders}

UserService_update_user(user_id, user_data) ==
    IF update_fields(user_data) = {}
    THEN {[out |-> Raise("No fields to update"), users |-> users]}
    ELSE IF \A r \in users : r.id # user_id
    THEN {[out |-> Return(None), users |-> users]}
    ELSE {IF UniqueViolation(update_row(r, user_data, salt), users)
          THEN [out |-> Raise(DatabaseError), users |-> users]
          ELSE [out |-> Return(Some(PublicRow(update_row(r, user_data, salt)))),
                users |-> committed(users,
                    [op |-> "update", row |-> update_row(r, user_data, salt)])]
          : r \in {x \in users : x.id = user_id}, salt \in Salts}

UserService_delete_user(user_id) ==
    IF \A r \in users : r.id # user_id
    THEN [out |-> Return(FALSE), users |-> users]
    ELSE [out |-> Return(TRUE), users |-> {r \in users : r.id # user_id}]

\* (mutant) the password is never verified
UserService_authenticate_user_unverified(username, password) ==
    IF \E r \in users : r.username = username \/ r.email = username
    THEN Some(PublicRow(CHOOSE r \in users : r.username = username \/ r.email = username))
    ELSE None

\* authenticate_user: username lookup, else e-mail lookup, then the password
UserService_authenticate_user(username, password) ==
    LET by_name == UserService_get_user_by_username(username)
        user == IF by_name # None THEN by_name
                ELSE IF \E r \in users : r.email = username
                THEN Some(CHOOSE r \in users : r.email = username)
                ELSE None
    IN  IF user = None THEN None
        ELSE IF ~verify_password(password, Val(user).password) THEN None
        ELSE Some(PublicRow(Val(user)))

----------------------------------------------------------------------------
(* main.py: the routes *)

APIResponse(message, data) ==
    [status |-> 200, success |-> TRUE, message |-> message, data |-> data]

InternalServerError == HTTPException(500, "Internal server error", None)

\* security = HTTPBearer(), then get_current_user: verify_token on the bearer
\* credentials; a request without them is turned away by HTTPBearer
get_current_user(credentials) ==
    IF credentials = None
    THEN [kind |-> "HTTPException", exc |-> HTTPException(403, "Not authenticated", None)]
    ELSE verify_token(Val(credentials))

\* what a client can present: nothing, the token it holds, a forged token
Forged == [claims |-> [sub |-> Some("alice")], exp |-> MaxTime + MaxTime, sig |-> "guess"]
Credentials == {None, Some(Forged)} \cup (IF held = None THEN {} ELSE {held})

reply(route, r) == resp' = Some([route |-> route, res |-> r])

\* POST /auth/register
register_user(user_data) ==
    /\ nextId <= MaxId
    /\ IF ~UserCreate_valid(user_data)
       THEN reply("POST /auth/register", ValidationError) /\ UNCHANGED <<users, nextId>>
       ELSE \E o \in UserService_create_user(user_data) :
            /\ users' = o.users
            /\ nextId' = o.nextId
            /\ reply("POST /auth/register", register_user_response(o.out))
    /\ UNCHANGED <<now, held, issuedTo, plan, storeVars, tokenVars, connVars>>

\* POST /users
create_user(user_data) ==
    /\ nextId <= MaxId
    /\ IF ~UserCreate_valid(user_data)
       THEN reply("POST /users", ValidationError) /\ UNCHANGED <<users, nextId>>
       ELSE \E o \in UserService_create_user(user_data) :
            /\ users' = o.users
            /\ nextId' = o.nextId
            /\ reply("POST /users",
                    IF o.out.kind = "return"
                    THEN APIResponse("User created successfully",
                                     [user |-> Val(o.out.value)])
                    ELSE HTTPException(400, o.out.detail, None))
    /\ UNCHANGED <<now, held, issuedTo, plan, storeVars, tokenVars, connVars>>

\* (mutant) the token issued for the user's e-mail instead of the username
login_user_response_sub_email(user) ==
    IF user = None
    THEN HTTPException(401, "Invalid username or password", Bearer)
    ELSE [status |-> 200, success |-> TRUE, message |-> "Login successful",
          data |-> [access_token |->
                        create_access_token([sub |-> Some(Val(user).email)], Some(30)),
                    token_type |-> "bearer",
                    user |-> Val(user)]]

\* the response of POST /auth/login for what authenticate_user returned
login_user_response(user) ==
    IF user = None
    THEN HTTPException(401, "Invalid username or password", Bearer)
    ELSE [status |-> 200, success |-> TRUE, message |-> "Login successful",
          data |-> [access_token |->
                        create_access_token([sub |-> Some(Val(user).username)], Some(30)),
                    token_type |-> "bearer",
                    user |-> Val(user)]]

\* POST /auth/login; the client keeps the token it is given
login_user(username, password) ==
    LET r == login_user_response(UserService_authenticate_user(username, password)) IN
    /\ reply("POST /auth/login", r)
    /\ held' = IF r.status = 200 THEN Some(r.data.access_token) ELSE held
    /\ issuedTo' = IF r.status = 200 THEN Some(r.data.user.id) ELSE issuedTo
    /\ UNCHANGED <<users, nextId, now, plan, storeVars, tokenVars, connVars>>

\* GET /users
get_users(credentials, limit, offset) ==
    LET current_user == get_current_user(credentials) IN
    /\ IF current_user.kind # "return"
       THEN reply("GET /users", current_user.exc)
       ELSE \E rows \in UserService_get_all_users(limit, offset) :
            reply("GET /users",
                  APIResponse("Retrieved users",
                              [users |-> rows, limit |-> limit, offset |-> offset]))
    /\ UNCHANGED <<users, nextId, now, held, issuedTo, plan, storeVars, tokenVars, connVars>>

\* GET /users/{user_id}
get_user(credentials, user_id) ==
    LET current_user == get_current_user(credentials)
        user == UserService_get_user_by_id(user_id)
    IN
    /\ reply("GET /users/{user_id}",
             IF current_user.kind # "return" THEN current_user.exc
             ELSE IF user = None THEN HTTPException(404, "User not found", None)
             ELSE APIResponse("User retrieved successfully", [user |-> Val(user)]))
    /\ UNCHANGED <<users, nextId, now, held, issuedTo, plan, storeVars, tokenVars, connVars>>

\* GET /users/username/{username}
get_user_by_username(credentials, username) ==
    LET current_user == get_current_user(credentials)
        user == UserService_get_user_by_username(username)
    IN
    /\ reply("GET /users/username/{username}",
             IF current_user.kind # "return" THEN current_user.exc
             ELSE IF user = None THEN HTTPException(404, "User not found", None)
             ELSE APIResponse("User retrieved successfully", [user |-> Val(user)]))
    /\ UNCHANGED <<users, nextId, now, held, issuedTo, plan, storeVars, tokenVars, connVars>>

\* DELETE /users/{user_id}: the response, and the table the handler leaves
delete_user_result(credentials, user_id) ==
    LET current_user == get_current_user(credentials)
        existing_user == UserService_get_user_by_id(user_id)
    IN
    IF current_user.kind # "return"
    THEN [res |-> current_user.exc, users |-> users]
    ELSE IF existing_user = None
    THEN [res |-> HTTPException(404, "User not found", None), users |-> users]
    ELSE IF "sub" \notin DOMAIN current_user.value
    THEN \* current_user["sub"]: KeyError, caught by except Exception
         [res |-> InternalServerError, users |-> users]
    ELSE IF current_user.value.sub # Val(existing_user).username
    THEN [res |-> HTTPException(403, "Not authorized to delete this user", None),
          users |-> users]
    ELSE [res |-> APIResponse("User deleted successfully", None),
          users |-> UserService_delete_user(user_id).users]

delete_user(credentials, user_id) ==
    /\ users' = delete_user_result(credentials, user_id).users
    /\ reply("DELETE /users/{user_id}", delete_user_result(credentials, user_id).res)
    /\ UNCHANGED <<nextId, now, held, issuedTo, plan, storeVars, tokenVars, connVars>>

\* the response of POST /auth/refresh-token
refresh_token_response(credentials) ==
    IF credentials = None
    THEN \* security = HTTPBearer(): no credentials
         HTTPException(403, "Not authenticated", None)
    ELSE IF verify_token(Val(credentials)).kind # "return"
    THEN \* the HTTPException of verify_token, caught by except Exception
         HTTPException(401, "Invalid token", Bearer)
    ELSE IF "sub" \notin DOMAIN verify_token(Val(credentials)).value
    THEN \* token_data["sub"]: KeyError, caught by except Exception
         HTTPException(401, "Invalid token", Bearer)
    ELSE [status |-> 200, success |-> TRUE, message |-> "Token refreshed successfully",
          data |-> [access_token |->
                        create_access_token(
                            [sub |-> Some(verify_token(Val(credentials)).value.sub)],
                            Some(30)),
                    token_type |-> "bearer"]]

\* POST /auth/refresh-token; the client keeps the token it is given
refresh_token(credentials) ==
    LET r == refresh_token_response(credentials) IN
    /\ reply("POST /auth/refresh-token", r)
    /\ held' = IF r.status = 200 THEN Some(r.data.access_token) ELSE held
    /\ UNCHANGED issuedTo
    /\ UNCHANGED <<users, nextId, now, plan, storeVars, tokenVars, connVars>>

\* (mutant) the ownership check left out
not_own_profile_never(current_user_data, user_id) == FALSE

\* current_user_data["id"] != user_id
not_own_profile(current_user_data, user_id) ==
    Val(current_user_data).id # user_id

\* the response for what UserService.update_user produced
update_user_response(out) ==
    IF out.kind = "ValueError" THEN HTTPException(400, out.detail, None)
    ELSE IF out.value = None THEN HTTPException(404, "User not found", None)
    ELSE APIResponse("User updated successfully", [user |-> Val(out.value)])

\* PUT /users/{user_id}: the responses the handler can give, each with the
\* table it leaves
update_user_results(credentials, user_id, body) ==
    LET current_user == get_current_user(credentials)
        user_data == UserUpdate_parse(body)
        current_user_data ==
            UserService_get_user_by_username(current_user.value.username)
    IN
    IF current_user.kind # "return"
    THEN {[res |-> current_user.exc, users |-> users]}
    ELSE IF ~UserUpdate_valid(user_data)
    THEN {[res |-> ValidationError, users |-> users]}
    ELSE IF current_user_data = None
    THEN {[res |-> HTTPException(401, "Invalid user session", None), users |-> users]}
    ELSE IF not_own_profile(current_user_data, user_id)
    THEN {[res |-> HTTPException(403, "You can only update your own profile", None),
           users |-> users]}
    ELSE IF user_data.password # None /\ "current_password" \notin DOMAIN user_data
    THEN \* user_data.current_password: AttributeError, caught by except Exception
         {[res |-> InternalServerError, users |-> users]}
    ELSE IF user_data.password # None /\ user_data.current_password = None
    THEN {[res |-> HTTPException(400,
                    "Current password is required for password updates", None),
           users |-> users]}
    ELSE IF /\ user_data.password # None
            /\ ~verify_password(Val(user_data.current_password),
                                Val(current_user_data).password)
    THEN {[res |-> HTTPException(400, "Current password is incorrect", None),
           users |-> users]}
    ELSE {[res |-> update_user_response(o.out), users |-> o.users] :
            o \in UserService_update_user(user_id, user_data)}

update_user(credentials, user_id, body) ==
    /\ \E o \in update_user_results(credentials, user_id, body) :
            users' = o.users /\ reply("PUT /users/{user_id}", o.res)
    /\ UNCHANGED <<nextId, now, held, issuedTo, plan, storeVars, tokenVars, connVars>>

\* more than a token's lifetime passes between two requests
Elapse ==
    /\ now + ACCESS_TOKEN_EXPIRE_MINUTES + 15 <= MaxTime
    /\ now' = now + ACCESS_TOKEN_EXPIRE_MINUTES + 15
    /\ UNCHANGED <<users, nextId, held, issuedTo, resp, plan, storeVars, tokenVars, connVars>>

----------------------------------------------------------------------------
(* Spec: requests arrive at the routes one after another *)

RouteCreateBodies ==
    {[username |-> "alice", email |-> "a@x.com", phone_number |-> "5551234567",
      password |-> "pw123456"],
     [username |-> "bob", email |-> "b@x.com", phone_number |-> "5557654321",
      password |-> "hunter22"],
     [username |-> "bob", email |-> "a@x.com", phone_number |-> "5557654321",
      password |-> "pw123456"],
     [username |-> "al", email |-> "b@x.com", phone_number |-> "5557654321",
      password |-> "pw123456"],
     [username |-> "bob", email |-> "b@x.com", phone_number |-> "5557654321",
      password |-> "short"],
     [username |-> "a@x.com", email |-> "b@x.com", phone_number |-> "5557654321",
      password |-> "hunter22"]}

RouteUpdateBodies ==
    [username : {None, Some("bob"), Some("al")},
     email : {None, Some("b@x.com")},
     phone_number : {None},
     password : {None, Some("hunter22")},
     current_password : {None, Some("pw123456")}]

Identifiers == Usernames \cup Emails

Init ==
    /\ users = {}
    /\ nextId = 1
    /\ now = 0
    /\ pc = [p \in Procs |-> "idle"]
    /\ call = [p \in Procs |-> None]
    /\ pend = [p \in Procs |-> None]
    /\ result = [p \in Procs |-> None]
    /\ plan = None
    /\ held = None
    /\ resp = None
    /\ token = None
    /\ verdict = None
    /\ issuedTo = None
    /\ db_connection = None
    /\ conns = <<>>
    /\ req = [r \in Requests |-> NoRequest]

Next ==
    \/ \E user_data \in RouteCreateBodies : register_user(user_data)
    \/ \E user_data \in RouteCreateBodies : create_user(user_data)
    \/ \E username \in Identifiers, password \in Passwords : login_user(username, password)
    \/ \E credentials \in Credentials, limit \in {1, 100}, offset \in {0, 1} :
            get_users(credentials, limit, offset)
    \/ \E credentials \in Credentials, user_id \in 1..MaxId : get_user(credentials, user_id)
    \/ \E credentials \in Credentials, username \in Usernames :
            get_user_by_username(credentials, username)
    \/ \E credentials \in Credentials, user_id \in 1..MaxId :
            delete_user(credentials, user_id)
    \/ \E credentials \in Credentials : refresh_token(credentials)
    \/ \E credentials \in Credentials, user_id \in 1..MaxId, body \in RouteUpdateBodies :
            update_user(credentials, user_id, body)
    \/ Elapse

Spec == Init /\ [][Next]_vars

----------------------------------------------------------------------------
(* SpecRace: two registrations with one username, sent at the same time *)

RacePlans ==
    {f \in [Procs -> UserCreateBodies] :
        \A p, q \in Procs : p # q =>
            /\ f[p].username = f[q].username
            /\ f[p].email # f[q].email
            /\ f[p].phone_number # f[q].phone_number}

InitRace ==
    /\ users = {}
    /\ nextId = 1
    /\ now = 0
    /\ pc = [p \in Procs |-> "idle"]
    /\ call = [p \in Procs |-> None]
    /\ pend = [p \in Procs |-> None]
    /\ result = [p \in Procs |-> None]
    /\ plan \in RacePlans
    /\ held = None
    /\ resp = None
    /\ token = None
    /\ verdict = None
    /\ issuedTo = None
    /\ db_connection = None
    /\ conns = <<>>
    /\ req = [r \in Requests |-> NoRequest]

\* a caller that has not registered yet enters create_user with its body
race_register_user(p) ==
    /\ result[p] = None
    /\ UserService_create_user_check(p, plan[p])

NextRace ==
    \/ \E p \in Procs : race_register_user(p)
    \/ \E p \in Procs : UserService_create_user_insert(p)
    \/ \E p \in Procs : commit(p)

SpecRace == InitRace /\ [][NextRace]_vars

RaceDone == \A p \in Procs : pc[p] = "idle" /\ result[p] # None

----------------------------------------------------------------------------
(* SpecTxn: the UserService calls of concurrent callers when the store can   *)
(* fail: cursor.execute or DatabaseConnection.commit raises psycopg2.Error   *)

OperationalError == "Database error: server closed the connection unexpectedly"

\* cursor.execute raises psycopg2.Error before the statement wrote anything:
\* the check query or the INSERT of create_user, the UPDATE, the DELETE;
\* except psycopg2.Error: rollback, raise ValueError(f"Database error: {e}")
execute_raises(p, op) ==
    /\ \/ pc[p] = "idle"
       \/ pc[p] = "insert" /\ op = "create"
    /\ nextId <= MaxId
    /\ result' = [result EXCEPT ![p] = Some([op |-> op, out |-> Raise(OperationalError)])]
    /\ pc' = [pc EXCEPT ![p] = "idle"]
    /\ call' = [call EXCEPT ![p] = None]
    /\ UNCHANGED <<users, nextId, now, pend, routeVars, tokenVars, connVars>>

\* (mutant) a rollback that leaves the caller's uncommitted write in place
rollback_nothing(p) == pend

\* DatabaseConnection.rollback: the caller's uncommitted write is discarded
rollback(p) == [pend EXCEPT ![p] = None]

\* self.db.commit() raises psycopg2.Error after the statement was executed;
\* except psycopg2.Error: rollback, raise ValueError(f"Database error: {e}")
commit_raises(p) ==
    /\ pc[p] = "commit"
    /\ pend' = rollback(p)
    /\ result' = [result EXCEPT ![p] =
            Some([op |-> call[p].op, out |-> Raise(OperationalError)])]
    /\ pc' = [pc EXCEPT ![p] = "idle"]
    /\ call' = [call EXCEPT ![p] = None]
    /\ UNCHANGED <<users, nextId, now, routeVars, tokenVars, connVars>>

TxnCreateBodies ==
    {[username |-> "alice", email |-> "a@x.com", phone_number |-> "5551234567",
      password |-> "pw123456"],
     [username |-> "bob", email |-> "b@x.com", phone_number |-> "5557654321",
      password |-> "pw123456"],
     [username |-> "alice", email |-> "b@x.com", phone_number |-> "5557654321",
      password |-> "pw123456"]}

TxnUpdateBodies ==
    {[username |-> None, email |-> None, phone_number |-> None, password |-> None],
     [username |-> Some("bob"), email |-> None, phone_number |-> None,
      password |-> None],
     [username |-> None, email |-> Some("a@x.com"), phone_number |-> None,
      password |-> None]}

InitTxn ==
    /\ users = {}
    /\ nextId = 1
    /\ now = 0
    /\ pc = [p \in Procs |-> "idle"]
    /\ call = [p \in Procs |-> None]
    /\ pend = [p \in Procs |-> None]
    /\ result = [p \in Procs |-> None]
    /\ plan = None
    /\ held = None
    /\ resp = None
    /\ token = None
    /\ verdict = None
    /\ issuedTo = None
    /\ db_connection = None
    /\ conns = <<>>
    /\ req = [r \in Requests |-> NoRequest]

NextTxn ==
    \/ \E p \in Procs, user_data \in TxnCreateBodies :
            UserService_create_user_check(p, user_data)
    \/ \E p \in Procs : UserService_create_user_insert(p)
    \/ \E p \in Procs, user_id \in 1..MaxId, user_data \in TxnUpdateBodies :
            UserService_update_user_execute(p, user_id, user_data)
    \/ \E p \in Procs, user_id \in 1..MaxId : UserService_delete_user_execute(p, user_id)
    \/ \E p \in Procs : commit(p)
    \/ \E p \in Procs, op \in {"create", "update", "delete"} : execute_raises(p, op)
    \/ \E p \in Procs : commit_raises(p)

SpecTxn == InitTxn /\ [][NextTxn]_vars

----------------------------------------------------------------------------
(* SpecStale: a client keeps the token of one login while records are        *)
(* renamed and usernames are registered again                                *)

StaleCreateBodies ==
    {[username |-> "alice", email |-> "a@x.com", phone_number |-> "5551234567",
      password |-> "pw123456"],
     [username |-> "alice", email |-> "b@x.com", phone_number |-> "5557654321",
      password |-> "hunter22"]}

StaleUpdateBodies ==
    [username : {None, Some("bob")},
     email : {None, Some("c@x.com")},
     phone_number : {None},
     password : {None},
     current_password : {None}]

InitStale ==
    /\ users = {}
    /\ nextId = 1
    /\ now = 0
    /\ pc = [p \in Procs |-> "idle"]
    /\ call = [p \in Procs |-> None]
    /\ pend = [p \in Procs |-> None]
    /\ result = [p \in Procs |-> None]
    /\ plan = None
    /\ held = None
    /\ resp = None
    /\ token = None
    /\ verdict = None
    /\ issuedTo = None
    /\ db_connection = None
    /\ conns = <<>>
    /\ req = [r \in Requests |-> NoRequest]

NextStale ==
    \/ \E user_data \in StaleCreateBodies : register_user(user_data)
    \/ \E username \in Usernames, password \in Passwords : login_user(username, password)
    \/ \E credentials \in Credentials, user_id \in 1..MaxId, body \in StaleUpdateBodies :
            update_user(credentials, user_id, body)
    \/ \E credentials \in Credentials, user_id \in 1..MaxId :
            delete_user(credentials, user_id)
    \/ Tick

SpecStale == InitStale /\ [][NextStale]_vars

----------------------------------------------------------------------------
(* SpecConn: database.py. Requests of one worker process share the module-   *)
(* level db. The dependency get_db_connection is a plain generator, so its   *)
(* two halves run on pool threads, at any moment; the handlers are           *)
(* coroutines that never await, so the event loop runs one at a time.        *)

\* a connection object is still referenced: by db.connection or by a cursor
referenced(c, dbc, rq) ==
    \/ dbc = Some(c)
    \/ \E r \in Requests : rq[r].cursor = Some(c)

\* a connection object nothing refers to any more is deallocated, which
\* closes it
collect(cs, dbc, rq) ==
    [c \in DOMAIN cs |->
        IF cs[c] = "open" /\ ~referenced(c, dbc, rq) THEN "closed" ELSE cs[c]]

\* a request is inside its handler
in_handler(r) == req[r].pc \in {"cursor", "executed"}

\* get_db_connection up to the yield: db.connect() replaces db.connection
get_db_connection_enter(r) ==
    /\ req[r].pc = "new"
    /\ Len(conns) < MaxConns
    /\ LET c == Len(conns) + 1
           rq == [req EXCEPT ![r] = [@ EXCEPT !.pc = "ready", !.own = Some(c)]]
       IN  /\ db_connection' = Some(c)
           /\ req' = rq
           /\ conns' = collect(Append(conns, "open"), Some(c), rq)
    /\ UNCHANGED <<users, nextId, now, storeVars, routeVars, tokenVars>>

\* DatabaseConnection.get_cursor, the first store call of the handler: a new
\* connection when db.connection is closed, then a cursor on db.connection
DatabaseConnection_get_cursor(r) ==
    /\ req[r].pc = "ready"
    /\ \A q \in Requests \ {r} : ~in_handler(q)
    /\ IF conns[Val(db_connection)] = "closed"
       THEN /\ Len(conns) < MaxConns
            /\ LET c == Len(conns) + 1
                   rq == [req EXCEPT ![r] = [@ EXCEPT !.pc = "cursor", !.cursor = Some(c)]]
               IN  /\ db_connection' = Some(c)
                   /\ req' = rq
                   /\ conns' = collect(Append(conns, "open"), Some(c), rq)
       ELSE /\ req' = [req EXCEPT ![r] =
                        [@ EXCEPT !.pc = "cursor", !.cursor = db_connection]]
            /\ UNCHANGED <<db_connection, conns>>
    /\ UNCHANGED <<users, nextId, now, storeVars, routeVars, tokenVars>>

\* cursor.execute: the statement runs on the connection the cursor was made
\* on; on a closed connection it raises and the handler ends in a failure
cursor_execute(r) ==
    /\ req[r].pc = "cursor"
    /\ LET rq == IF conns[Val(req[r].cursor)] = "closed"
                 THEN [req EXCEPT ![r] = [@ EXCEPT !.pc = "returned", !.cursor = None]]
                 ELSE [req EXCEPT ![r] = [@ EXCEPT !.pc = "executed"]]
       IN  /\ req' = rq
           /\ conns' = collect(conns, db_connection, rq)
    /\ UNCHANGED <<users, nextId, now, db_connection, storeVars, routeVars, tokenVars>>

\* DatabaseConnection.commit: db.connection.commit(), on whatever connection
\* db.connection is by now; then the handler returns and its cursor is gone
DatabaseConnection_commit(r) ==
    /\ req[r].pc = "executed"
    /\ LET rq == [req EXCEPT ![r] =
                    [@ EXCEPT !.pc = "returned", !.cursor = None,
                              !.committed = IF conns[Val(db_connection)] = "open"
                                            THEN db_connection ELSE None]]
       IN  /\ req' = rq
           /\ conns' = collect(conns, db_connection, rq)
    /\ UNCHANGED <<users, nextId, now, db_connection, storeVars, routeVars, tokenVars>>

\* get_db_connection after the yield: finally db.disconnect() closes
\* db.connection, whichever connection that is
get_db_connection_exit(r) ==
    /\ req[r].pc = "returned"
    /\ req' = [req EXCEPT ![r] = [@ EXCEPT !.pc = "done"]]
    /\ conns' = [conns EXCEPT ![Val(db_connection)] = "closed"]
    /\ UNCHANGED <<users, nextId, now, db_connection, storeVars, routeVars, tokenVars>>

InitConn ==
    /\ users = {}
    /\ nextId = 1
    /\ now = 0
    /\ pc = [p \in Procs |-> "idle"]
    /\ call = [p \in Procs |-> None]
    /\ pend = [p \in Procs |-> None]
    /\ result = [p \in Procs |-> None]
    /\ plan = None
    /\ held = None
    /\ resp = None
    /\ token = None
    /\ verdict = None
    /\ issuedTo = None
    /\ db_connection = None
    /\ conns = <<>>
    /\ req = [r \in Requests |-> NoRequest]

NextConn ==
    \/ \E r \in Requests : get_db_connection_enter(r)
    \/ \E r \in Requests : DatabaseConnection_get_cursor(r)
    \/ \E r \in Requests : cursor_execute(r)
    \/ \E r \in Requests : DatabaseConnection_commit(r)
    \/ \E r \in Requests : get_db_connection_exit(r)

SpecConn == InitConn /\ [][NextConn]_vars

----------------------------------------------------------------------------
(* SpecToken: one token is issued at some moment and verified as time passes *)

TokenLifetimes == {None, Some(0), Some(15), Some(ACCESS_TOKEN_EXPIRE_MINUTES)}

\* create_access_token(data={"sub": sub}, expires_delta)
token_issue(sub, expires_delta) ==
    /\ token = None
    /\ token' = Some([tok |-> create_access_token([sub |-> Some(sub)], expires_delta),
                      issued_at |-> now,
                      expires_delta |-> expires_delta])
    /\ UNCHANGED <<users, nextId, now, storeVars, routeVars, connVars, verdict>>

\* verify_token(token) at the present moment
token_verify ==
    /\ token # None
    /\ verdict' = Some([at |-> now, out |-> verify_token(Val(token).tok)])
    /\ UNCHANGED <<users, nextId, now, storeVars, routeVars, connVars, token>>

InitToken ==
    /\ users = {}
    /\ nextId = 1
    /\ now = 0
    /\ pc = [p \in Procs |-> "idle"]
    /\ call = [p \in Procs |-> None]
    /\ pend = [p \in Procs |-> None]
    /\ result = [p \in Procs |-> None]
    /\ plan = None
    /\ held = None
    /\ resp = None
    /\ token = None
    /\ verdict = None
    /\ issuedTo = None
    /\ db_connection = None
    /\ conns = <<>>
    /\ req = [r \in Requests |-> NoRequest]

NextToken ==
    \/ \E sub \in Usernames, expires_delta \in TokenLifetimes :
            token_issue(sub, expires_delta)
    \/ token_verify
    \/ Tick

SpecToken == InitToken /\ [][NextToken]_vars

----------------------------------------------------------------------------
(* Claims *)

\* C1: in every state reachable by create_user, update_user and delete_user
\* calls of concurrent callers, no two stored user records share a username,
\* an email or a phone_number.
C1_UniqueFields ==
    \A r, s \in users : r # s =>
        /\ r.username # s.username
        /\ r.email # s.email
        /\ r.phone_number # s.phone_number

\* two records are stored, and a caller's update that would have duplicated a
\* key was turned away by the store
C1_Witness ==
    /\ Cardinality(users) = 2
    /\ \E p \in Procs :
            result[p] = Some([op |-> "update", out |-> Raise(DatabaseError)])

DuplicateField ==
    {"Username already exists", "Email already exists",
     "Phone number already exists"}

\* C2: when two registrations with the same username (and different email and
\* phone_number) run concurrently, under every interleaving exactly one
\* succeeds (200) and the other fails with the DuplicateField failure, 400
\* "Username already exists".
C2_OneSuccessOneDuplicate ==
    RaceDone =>
        \E p, q \in Procs :
            /\ p # q
            /\ register_user_response(Val(result[p]).out).status = 200
            /\ register_user_response(Val(result[q]).out) =
                    HTTPException(400, "Username already exists", None)

\* C2, the part the store decides: the two registrations never both succeed
C2_NeverTwoSuccesses ==
    RaceDone =>
        \E p \in Procs : register_user_response(Val(result[p]).out).status # 200

\* the field a DuplicateField failure names is one on which the candidate
\* collides with a row of tbl
NamesRealCollision(out, user_data, tbl) ==
    /\ out.kind = "ValueError"
    /\ \/ /\ out.detail = "Username already exists"
          /\ \E r \in tbl : r.username = user_data.username
       \/ /\ out.detail = "Email already exists"
          /\ \E r \in tbl : r.email = user_data.email
       \/ /\ out.detail = "Phone number already exists"
          /\ \E r \in tbl : r.phone_number = user_data.phone_number

\* C10: a create_user call whose username, email or phone_number equals that
\* of an already stored record fails with a DuplicateField failure that names
\* a field on which the candidate really collides, and the stored records are
\* the same after the call as before it.
C10_DuplicateRejected ==
    \A user_data \in UserCreateBodies :
        check_query(users, user_data) # {} =>
            \A o \in UserService_create_user(user_data) :
                /\ NamesRealCollision(o.out, user_data, users)
                /\ o.users = users

\* a create_user call was turned away for its email alone: no stored row has
\* the username some candidate with that outcome carried
C10_Witness ==
    \E p \in Procs :
        /\ result[p] = Some([op |-> "create", out |-> Raise("Email already exists")])
        /\ pc[p] = "idle"
        /\ Cardinality(users) = 1
        /\ \E r \in users : r.username = "alice" /\ r.email = "a@x.com"

\* the password hashes a response carries
HashesIn(res) ==
    IF "data" \notin DOMAIN res THEN {}
    ELSE (IF "user" \in DOMAIN res.data /\ "password" \in DOMAIN res.data.user
          THEN {res.data.user.password} ELSE {})
         \cup
         (IF "users" \in DOMAIN res.data
          THEN {res.data.users[i].password :
                    i \in {j \in DOMAIN res.data.users :
                            "password" \in DOMAIN res.data.users[j]}}
          ELSE {})

\* C3: no response of any route contains the stored password hash of any user.
C3_NoHashInResponse ==
    resp # None => HashesIn(Val(resp).res) \cap {r.password : r \in users} = {}

\* no stored user has username or e-mail x
NoSuchUser(x) == \A r \in users : r.username # x /\ r.email # x

\* a stored user has username x, and password w is not that user's password
WrongPassword(x, w) ==
    \E r \in users : r.username = x /\ ~verify_password(w, r.password)

\* C4: a login whose identifier matches no stored user and a login with an
\* existing username and a wrong password produce the identical failure: the
\* same status 401, the same detail and the same headers.
C4_SameLoginFailure ==
    \A x, y \in Identifiers, v, w \in Passwords :
        (NoSuchUser(x) /\ WrongPassword(y, w)) =>
            /\ login_user_response(UserService_authenticate_user(x, v)).status = 401
            /\ login_user_response(UserService_authenticate_user(x, v)) =
                    login_user_response(UserService_authenticate_user(y, w))

\* a login has just failed while alice is stored under a password other than
\* hunter22 and nobody is called bob or b@x.com: both kinds of failing login
\* exist in this state
C4_Witness ==
    /\ resp # None
    /\ Val(resp).route = "POST /auth/login"
    /\ Val(resp).res.status = 401
    /\ WrongPassword("alice", "hunter22")
    /\ NoSuchUser("bob") /\ NoSuchUser("b@x.com")

\* the credentials are a token verify_token accepts, and the stored user its
\* subject names has an id other than user_id
TokenOfOtherUser(credentials, user_id) ==
    /\ credentials # None
    /\ verify_token(Val(credentials)).kind = "return"
    /\ \E r \in users :
        /\ r.username = verify_token(Val(credentials)).value.username
        /\ r.id # user_id

\* the credentials are a token verify_token accepts, and the stored user its
\* subject names is record user_id
TokenOfOwner(credentials, user_id) ==
    /\ credentials # None
    /\ verify_token(Val(credentials)).kind = "return"
    /\ \E r \in users :
        /\ r.username = verify_token(Val(credentials)).value.username
        /\ r.id = user_id

\* C5: DELETE /users/{id} presented with a valid token that belongs to an
\* existing user other than the owner of record id is rejected with Forbidden
\* (403), and record id is still stored afterwards.
C5_DeleteByOtherForbidden ==
    \A credentials \in Credentials, user_id \in 1..MaxId :
        (/\ TokenOfOtherUser(credentials, user_id)
         /\ \E r \in users : r.id = user_id)
        => /\ delete_user_result(credentials, user_id).res.status = 403
           /\ \E r \in delete_user_result(credentials, user_id).users : r.id = user_id

\* C6: POST /auth/refresh-token presented with a valid, unexpired token for
\* subject s returns 200 with a new token whose subject is s and whose expiry
\* is counted from the moment of the refresh; presented with an invalid or
\* expired token it returns 401.
C6_RefreshIssuesNewToken ==
    \A credentials \in Credentials \ {None} :
        IF verify_token(Val(credentials)).kind = "return"
        THEN /\ refresh_token_response(credentials).status = 200
             /\ refresh_token_response(credentials).data.access_token.claims.sub
                    = Val(credentials).claims.sub
             /\ refresh_token_response(credentials).data.access_token.exp
                    = now + ACCESS_TOKEN_EXPIRE_MINUTES
        ELSE refresh_token_response(credentials).status = 401

\* C7: PUT /users/{id} sent by the owner of record id with a (well-formed)
\* password field and no current_password is rejected with a client error
\* 400, and the stored password hash of record id is unchanged.
C7_PasswordNeedsCurrent ==
    \A credentials \in Credentials, user_id \in 1..MaxId, body \in RouteUpdateBodies :
        (/\ TokenOfOwner(credentials, user_id)
         /\ UserUpdate_valid(UserUpdate_parse(body))
         /\ body.password # None
         /\ body.current_password = None)
        => \A o \in update_user_results(credentials, user_id, body) :
            /\ o.res.status = 400
            /\ \A r \in users : r.id = user_id =>
                    \E s \in o.users : s.id = user_id /\ s.password = r.password

\* C8 as stated: PUT /users/{id} presented with a valid token whose user has
\* an id different from id fails with Forbidden (403) whatever fields are
\* supplied, and no stored record is changed by the request.
C8_ForbiddenWhateverFields ==
    \A credentials \in Credentials, user_id \in 1..MaxId, body \in RouteUpdateBodies :
        TokenOfOtherUser(credentials, user_id) =>
            \A o \in update_user_results(credentials, user_id, body) :
                o.res.status = 403 /\ o.users = users

\* C8 as amended: PUT /users/{id} presented with a valid token whose user has
\* an id different from id changes no stored record; it fails with Forbidden
\* (403) whatever fields are supplied in a body that passes the UserUpdate
\* validation, and with a validation error (422) when the body does not.
C8_ForbiddenWhateverValidFields ==
    \A credentials \in Credentials, user_id \in 1..MaxId, body \in RouteUpdateBodies :
        TokenOfOtherUser(credentials, user_id) =>
            \A o \in update_user_results(credentials, user_id, body) :
                /\ o.res.status =
                        IF UserUpdate_valid(UserUpdate_parse(body)) THEN 403 ELSE 422
                /\ o.users = users

\* a PUT was answered 403 while the client holds a token of a stored user, and
\* two records are stored
C8_Witness ==
    /\ resp # None
    /\ Val(resp).route = "PUT /users/{user_id}"
    /\ Val(resp).res = HTTPException(403, "You can only update your own profile", None)
    /\ Cardinality(users) = 2
    /\ held # None
    /\ \E user_id \in 1..MaxId : TokenOfOtherUser(held, user_id)

\* C9: a token issued at time t0 with lifetime ttl is accepted by verify_token
\* at every time before t0 + ttl and is rejected with InvalidToken (401) at
\* every time from t0 + ttl onwards (so that, once rejected for expiry, it is
\* never accepted again).
C9_RejectedFromExpiryOn ==
    (verdict # None /\ truthy_delta(Val(token).expires_delta)) =>
        IF Val(verdict).at < Val(token).issued_at + Val(Val(token).expires_delta)
        THEN Val(verdict).out.kind = "return"
        ELSE /\ Val(verdict).out.kind = "HTTPException"
             /\ Val(verdict).out.exc.status = 401

\* caller p's call ends in this step
Ends(p) ==
    /\ pc'[p] = "idle"
    /\ result'[p] # None
    /\ <<pc[p], result[p]>> # <<pc'[p], result'[p]>>

\* the outcome is a failure (duplicate, no fields, storage error), or the call
\* found no matching record (update_user -> None, delete_user -> False)
FailedOrNoMatch(r) ==
    \/ r.out.kind = "ValueError"
    \/ r.out.kind = "return" /\ r.op = "delete" /\ r.out.value = FALSE
    \/ r.out.kind = "return" /\ r.op # "delete" /\ r.out.value = None

\* C11: whenever create_user, update_user or delete_user ends in a failure or
\* finds no matching record, the stored records afterwards equal those before
\* the call and the call leaves no uncommitted write behind that a later
\* commit could make visible; the stored records change only in a step that
\* ends a call in success.
C11_FailureLeavesStore ==
    [][/\ \A p \in Procs :
            (Ends(p) /\ FailedOrNoMatch(Val(result'[p])))
                => users' = users /\ pend'[p] = None
       /\ users' # users =>
            \E p \in Procs : Ends(p) /\ ~FailedOrNoMatch(Val(result'[p]))]_vars

\* a create_user call executed its INSERT (the id sequence advanced), failed
\* at commit and was rolled back: nothing is stored, nothing is pending
C11_Witness ==
    /\ nextId = 2
    /\ users = {}
    /\ \E p \in Procs :
        /\ result[p] = Some([op |-> "create", out |-> Raise(OperationalError)])
        /\ pc[p] = "idle"
    /\ \A p \in Procs : pend[p] = None

\* the texts of the store's own errors, as UserService re-raises them
StoreErrorText == {DatabaseError, OperationalError}

\* the response of the route that made a finished create_user / update_user
\* call: register_user for create_user, PUT /users/{user_id} for update_user
response_of(r) ==
    IF r.op = "create" THEN register_user_response(r.out)
    ELSE update_user_response(r.out)

\* C12: when the backing store raises an error during register or update, the
\* caller receives only a generic failure that never carries the store's
\* internal error text; for register it is a 500, distinct from the 400 of
\* DuplicateField.
C12_StorageFailureGeneric ==
    \A p \in Procs :
        (/\ result[p] # None
         /\ Val(result[p]).op \in {"create", "update"}
         /\ Val(result[p]).out.kind = "ValueError"
         /\ Val(result[p]).out.detail \in StoreErrorText)
        => /\ response_of(Val(result[p])).detail \notin StoreErrorText
           /\ Val(result[p]).op = "create" => response_of(Val(result[p])).status = 500

\* row s is row r with exactly the supplied fields of user_data replaced, the
\* password as a bcrypt hash of the supplied plaintext, and updated_at the
\* present moment
ReplacesSupplied(r, s, user_data) ==
    /\ s.id = r.id
    /\ s.created_at = r.created_at
    /\ s.updated_at = now
    /\ \A f \in {"username", "email", "phone_number"} :
            s[f] = IF user_data[f] # None THEN Val(user_data[f]) ELSE r[f]
    /\ IF user_data.password # None
       THEN /\ s.password.scheme = "bcrypt"
            /\ verify_password(Val(user_data.password), s.password)
       ELSE s.password = r.password

\* C13: a successful update_user(id, fields) replaces exactly the supplied
\* fields of record id (the password stored as a hash) and refreshes
\* updated_at; it leaves id, created_at, every unsupplied field and every
\* other record unchanged; with no field supplied it fails with "No fields to
\* update", and for an id that does not exist it returns None.
C13_UpdateFrame ==
    \A user_id \in 1..MaxId, user_data \in UserUpdateBodies :
        \A o \in UserService_update_user(user_id, user_data) :
            IF update_fields(user_data) = {}
            THEN o.out = Raise("No fields to update") /\ o.users = users
            ELSE IF \A r \in users : r.id # user_id
            THEN o.out = Return(None) /\ o.users = users
            ELSE o.out.kind = "return" =>
                    \E r \in users, t \in o.users :
                        /\ r.id = user_id
                        /\ ReplacesSupplied(r, t, user_data)
                        /\ o.users \ {t} = users \ {r}
                        /\ o.out.value = Some(PublicRow(t))

\* a PUT has just succeeded on a record created at an earlier moment, so the
\* record's updated_at is later than its created_at, and another record is
\* stored beside it
C13_Witness ==
    /\ resp # None
    /\ Val(resp).route = "PUT /users/{user_id}"
    /\ Val(resp).res.status = 200
    /\ Cardinality(users) = 2
    /\ \E r \in users :
        /\ r.id = Val(resp).res.data.user.id
        /\ r.updated_at = now
        /\ r.created_at < now

\* the stored user a login with identifier x is about: the one whose username
\* is x, or, when there is none, the one whose email is x
LoginTarget(x) ==
    IF \E r \in users : r.username = x
    THEN {r \in users : r.username = x}
    ELSE {r \in users : r.email = x}

\* C14: login with identifier x and the correct password succeeds for the user
\* whose username is x, or, when no user has username x, for the user whose
\* email is x; the issued token's subject is that user's username and the
\* returned user has no password field.
C14_LoginByUsernameOrEmail ==
    \A x \in Identifiers, w \in Passwords :
        \A r \in LoginTarget(x) :
            verify_password(w, r.password) =>
                LET res == login_user_response(UserService_authenticate_user(x, w)) IN
                /\ res.status = 200
                /\ res.data.access_token.claims.sub = Some(r.username)
                /\ res.data.user.id = r.id
                /\ "password" \notin DOMAIN res.data.user

\* a login has just succeeded for the user whose username is a@x.com, while
\* alice is stored with the e-mail a@x.com: the identifier a@x.com names one
\* user by username and another by e-mail
C14_Witness ==
    /\ resp # None
    /\ Val(resp).route = "POST /auth/login"
    /\ Val(resp).res.status = 200
    /\ Val(resp).res.data.user.username = "a@x.com"
    /\ \E r \in users : r.username = "alice" /\ r.email = "a@x.com"

\* the usernames of the input domains that consist only of letters, digits
\* and underscores
WordUsernames == {"alice", "bob", "al"}

\* C15: in every reachable state, every stored username is 3 to 50 characters
\* long and consists only of letters, digits and underscores, whether written
\* by registration or by PUT /users/{id}.
C15_StoredUsernamesWellFormed ==
    \A r \in users :
        /\ Len(r.username) >= 3
        /\ Len(r.username) <= 50
        /\ r.username \in WordUsernames

\* C16: create_access_token(data, ttl) produces a token whose expiry equals the
\* issue time plus ttl for every supplied ttl, including a ttl of zero; only
\* when no ttl is supplied is the expiry the issue time plus the default
\* lifetime of 30 minutes.
C16_ExpiryIsIssuePlusTtl ==
    token # None =>
        Val(token).tok.exp =
            Val(token).issued_at +
                (IF Val(token).expires_delta = None
                 THEN ACCESS_TOKEN_EXPIRE_MINUTES
                 ELSE Val(Val(token).expires_delta))

\* C17: PUT /users/{id} sent by the owner of record id with a new password
\* (and no other field) and a current_password that verifies against the
\* stored hash succeeds (200); afterwards the stored hash verifies the new
\* password and no longer the old one.
C17_PasswordChangeSucceeds ==
    \A credentials \in Credentials, user_id \in 1..MaxId, body \in RouteUpdateBodies :
        (/\ TokenOfOwner(credentials, user_id)
         /\ body.username = None /\ body.email = None /\ body.phone_number = None
         /\ body.password # None
         /\ body.current_password # None
         /\ \E r \in users :
                r.id = user_id /\ verify_password(Val(body.current_password), r.password))
        => \A o \in update_user_results(credentials, user_id, body) :
            /\ o.res.status = 200
            /\ \E t \in o.users :
                /\ t.id = user_id
                /\ verify_password(Val(body.password), t.password)
                /\ ~verify_password(Val(body.current_password), t.password)

\* C18: a token issued at login to the record with id i never authorizes a PUT
\* that modifies a record with a different id: after any sequence of renames,
\* deletions and registrations, a PUT bearing that token changes no record
\* other than id i.
C18_TokenBoundToRecord ==
    (held # None /\ issuedTo # None) =>
        \A user_id \in (1..MaxId) \ {Val(issuedTo)}, body \in StaleUpdateBodies :
            \A o \in update_user_results(held, user_id, body) :
                o.users = users

\* C19: with concurrent requests that all go through the module-level db,
\* each request's cursor and commit are on the connection opened for that
\* request, no connection is closed while a request is inside its handler
\* with a cursor on it, and every connection that was opened is closed once
\* all requests have finished.
C19_OwnConnection ==
    /\ \A r \in Requests :
        /\ req[r].cursor # None => req[r].cursor = req[r].own
        /\ req[r].committed # None => req[r].committed = req[r].own
        /\ (in_handler(r) /\ req[r].cursor # None)
                => conns[Val(req[r].cursor)] = "open"
    /\ (\A r \in Requests : req[r].pc = "done")
            => \A c \in DOMAIN conns : conns[c] = "closed"

====
